---------------------------- MODULE Spec2Model ----------------------------
(***************************************************************************)
(* Job orchestration and result-status framework of ai-insight-system:     *)
(* the unit contract (BaseCollector.run, BaseAnalyzer.run) and the         *)
(* pipeline coordinator (DailyJobManager).                                 *)
(*                                                                         *)
(* Strings that the code builds with f-strings are modelled as sequences   *)
(* of fragments, concatenation being \o.  A list is a sequence; Python's   *)
(* None for an analysis result is the empty sequence and a present result  *)
(* r is <<r>>, so that "if x.result:" is x.result # <<>>.                  *)
(***************************************************************************)
EXTENDS Naturals, Sequences, FiniteSets

VARIABLES
    status,          \* unit -> _status of the unit instance
    upc,             \* unit -> position of the unit's run(): idle, called, validate, body, done, raised
    uret,            \* unit -> what the last run() returned (NoEnv while none)
    uexc,            \* unit -> the exception that crossed run() (NoMsg when none)
    uvalid,          \* unit -> outcome of validate_config() in the current run
    ubody,           \* unit -> what the body did in the current run (NoOutcome: not invoked)
    uarg,            \* analyzer -> the data run(data) was called with
    last_result,     \* analyzer -> attribute _last_result (NoEnv: attribute not set)
    last_results,    \* model_analyzer._last_results (NoList: attribute not set)
    collected_data,  \* DailyJobManager._collected_data
    last_collection, \* DailyJobManager._last_collection
    hasStore,        \* whether a memory store was configured
    mem,             \* contents of the memory store, key -> value
    cj,              \* run_collection_job in flight
    aj,              \* run_analysis_job in flight
    rj,              \* run_report_job in flight
    pl               \* run_full_pipeline in flight

unitVars == <<status, upc, uret, uexc, uvalid, ubody, uarg, last_result>>
coordVars == <<last_results, collected_data, last_collection, hasStore, mem, cj, aj, rj, pl>>
coordVarsButCj == <<last_results, collected_data, last_collection, hasStore, mem, aj, rj, pl>>
vars == <<status, upc, uret, uexc, uvalid, ubody, uarg, last_result,
          last_results, collected_data, last_collection, hasStore, mem, cj, aj, rj, pl>>

---------------------------------------------------------------------------
(* Bounds of the exploration *)

\* length of the longest hf_models payload a collector returns
MaxItems == 7
\* how many units the stand-alone unit harness lets leave Pending
MaxActiveUnits == 2

---------------------------------------------------------------------------
(* Units, statuses, envelopes *)

CollectorNames == <<"ai_models", "github", "huggingface", "arxiv">>
Collectors == {CollectorNames[i] : i \in 1..Len(CollectorNames)}
Analyzers == {"insight", "model"}
Units == Collectors \cup Analyzers

Terminal == {"success", "failed", "partial"}

NoEnv == [status |-> "none"]
NoMsg == <<>>
NoOutcome == [kind |-> "none"]
NoArg == [kind |-> "none"]

\* messages of the exceptions and warnings the unit bodies produce
Boom == <<"boom">>
Warn == <<"warn">>
ConfigCrash == <<"config check crashed">>

\* CollectorResult(status, data, errors, source)
CollectorResult(st, data, errors, source) ==
    [status |-> st, data |-> data, errors |-> errors, source |-> source]

\* AnalysisResult(status, result, errors, source)
AnalysisResult(st, result, errors, source) ==
    [status |-> st, result |-> result, errors |-> errors, source |-> source]

\* the message of ValueError(f"Invalid configuration for {self.name}")
InvalidConfigMsg(u) == <<"Invalid configuration for ", u>>

---------------------------------------------------------------------------
(* BaseCollector.run *)

\* the status run() records after a normal return of the body
CollectorStatusAfterMut(result) ==
    IF result.errors # <<>> THEN "partial" ELSE "running"
CollectorStatusAfter(result) ==
    IF result.errors # <<>> THEN "partial" ELSE "success"

\* normal return: the envelope of the body with its source stamped, status untouched
CollectorOnReturn(u, result) ==
    [raised |-> FALSE,
     env    |-> [result EXCEPT !.source = u],
     status |-> CollectorStatusAfter(result),
     exc    |-> NoMsg]

\* the except branch: a Failed envelope whose only error is str(e)
CollectorOnExceptionMut(u, msg) ==
    [raised |-> TRUE, env |-> NoEnv, status |-> "failed", exc |-> msg]
CollectorOnException(u, msg) ==
    [raised |-> FALSE,
     env    |-> CollectorResult("failed", <<>>, <<msg>>, u),
     status |-> "failed",
     exc    |-> NoMsg]

\* whether run() goes on to collect() after validate_config() returned ok
CollectorProceedsMut(ok) == TRUE
CollectorProceeds(ok) == ok

\* status := RUNNING, then await validate_config()
CollectorRunBegin(u) ==
    /\ status' = [status EXCEPT ![u] = "running"]
    /\ upc' = [upc EXCEPT ![u] = "validate"]
    /\ uret' = [uret EXCEPT ![u] = NoEnv]
    /\ uexc' = [uexc EXCEPT ![u] = NoMsg]
    /\ uvalid' = [uvalid EXCEPT ![u] = "none"]
    /\ ubody' = [ubody EXCEPT ![u] = NoOutcome]

\* run() ends with outcome fin (of CollectorOnReturn / CollectorOnException)
UnitFinish(u, fin) ==
    /\ status' = [status EXCEPT ![u] = fin.status]
    /\ upc' = [upc EXCEPT ![u] = IF fin.raised THEN "raised" ELSE "done"]
    /\ uret' = [uret EXCEPT ![u] = fin.env]
    /\ uexc' = [uexc EXCEPT ![u] = fin.exc]

\* the gather of a collect stage in flight sees the task of u finish: cj.order is
\* the order in which its tasks have finished so far
TaskFinished(u) ==
    /\ cj' = IF cj.pc = "gather" /\ upc'[u] \in {"done", "raised"}
               THEN [cj EXCEPT !.order = Append(@, u)]
               ELSE cj
    /\ UNCHANGED coordVarsButCj

\* validate_config() completes with v: "true", "false" or "raise"
CollectorValidate(u, v) ==
    /\ upc[u] = "validate"
    /\ uvalid' = [uvalid EXCEPT ![u] = v]
    /\ IF v = "raise"
         THEN UnitFinish(u, CollectorOnException(u, ConfigCrash)) /\ UNCHANGED ubody
         ELSE IF CollectorProceeds(v = "true")
           THEN /\ upc' = [upc EXCEPT ![u] = "body"]
                /\ UNCHANGED <<status, uret, uexc, ubody>>
           ELSE UnitFinish(u, CollectorOnException(u, InvalidConfigMsg(u)))
                /\ UNCHANGED ubody
    /\ UNCHANGED <<uarg, last_result>>
    /\ TaskFinished(u)

\* collect() completes with out: a returned envelope or a raised exception
CollectorBody(u, out) ==
    /\ upc[u] = "body"
    /\ ubody' = [ubody EXCEPT ![u] = out]
    /\ UnitFinish(u, IF out.kind = "return"
                       THEN CollectorOnReturn(u, out.env)
                       ELSE CollectorOnException(u, out.msg))
    /\ UNCHANGED <<uvalid, uarg, last_result>>
    /\ TaskFinished(u)

---------------------------------------------------------------------------
(* BaseAnalyzer.run *)

AnalyzerStatusAfter(result) ==
    IF result.errors # <<>> THEN "partial" ELSE "success"

AnalyzerOnReturn(u, result) ==
    [raised |-> FALSE,
     env    |-> [result EXCEPT !.source = u],
     status |-> AnalyzerStatusAfter(result),
     exc    |-> NoMsg]

AnalyzerOnException(u, msg) ==
    [raised |-> FALSE,
     env    |-> AnalysisResult("failed", <<>>, <<msg>>, u),
     status |-> "failed",
     exc    |-> NoMsg]

\* status := RUNNING, then await analyze(data)
AnalyzerRunBegin(u, data) ==
    /\ status' = [status EXCEPT ![u] = "running"]
    /\ upc' = [upc EXCEPT ![u] = "body"]
    /\ uret' = [uret EXCEPT ![u] = NoEnv]
    /\ uexc' = [uexc EXCEPT ![u] = NoMsg]
    /\ ubody' = [ubody EXCEPT ![u] = NoOutcome]
    /\ uarg' = [uarg EXCEPT ![u] = data]

\* analyze(data) completes with out; _last_result is set on a normal return only
AnalyzerBody(u, out) ==
    /\ upc[u] = "body"
    /\ ubody' = [ubody EXCEPT ![u] = out]
    /\ UnitFinish(u, IF out.kind = "return"
                       THEN AnalyzerOnReturn(u, out.env)
                       ELSE AnalyzerOnException(u, out.msg))
    /\ last_result' = IF out.kind = "return"
                        THEN [last_result EXCEPT ![u] = AnalyzerOnReturn(u, out.env).env]
                        ELSE last_result
    /\ UNCHANGED <<uvalid, uarg>>
    /\ UNCHANGED coordVars

---------------------------------------------------------------------------
(* What the bodies of the concrete units may do *)

\* the hf_models payload of n items, in collected order
HfList(n) == [i \in 1..n |-> n + 1 - i]
HfLens == {0, 2, 5, MaxItems}

ItemOf(u) == CASE u = "ai_models" -> 11 [] u = "github" -> 12 [] OTHER -> 13

Payloads(u) ==
    IF u = "huggingface" THEN {HfList(n) : n \in HfLens} ELSE {<<>>, <<ItemOf(u)>>}

Returned(env) == [kind |-> "return", env |-> env]
Raised(msg) == [kind |-> "raise", msg |-> msg]

\* every envelope a collect() body may hand back, and a raise
CollectorOutcomesFull(u) ==
    {Returned(CollectorResult(st, <<ItemOf(u)>>, e, "")) : st \in Terminal, e \in {<<>>, <<Warn>>}}
    \cup {Returned(CollectorResult("success", <<>>, <<>>, "")), Raised(Boom)}

UnitArgs == {1, 2}

\* every envelope an analyze() body may hand back for data, and a raise
AnalyzerOutcomesFull(data) ==
    {Returned(AnalysisResult(st, <<data>>, e, "")) : st \in Terminal, e \in {<<>>, <<Warn>>}}
    \cup {Returned(AnalysisResult("success", <<>>, <<>>, "")), Raised(Boom)}

---------------------------------------------------------------------------
(* Initial state: the coordinator and its units right after construction *)

IdleJob == [pc |-> "idle"]
EmptyDict == [empty |-> TRUE]
Absent == [absent |-> TRUE]
\* model_analyzer has no attribute _last_results yet: getattr(..., []) yields []
NoList == [set |-> FALSE, value |-> <<>>]

InitUnits ==
    /\ status = [u \in Units |-> "pending"]
    /\ upc = [u \in Units |-> "idle"]
    /\ uret = [u \in Units |-> NoEnv]
    /\ uexc = [u \in Units |-> NoMsg]
    /\ uvalid = [u \in Collectors |-> "none"]
    /\ ubody = [u \in Units |-> NoOutcome]
    /\ uarg = [u \in Analyzers |-> NoArg]
    /\ last_result = [u \in Analyzers |-> NoEnv]

InitCoord ==
    /\ last_results = NoList
    /\ collected_data = EmptyDict
    /\ last_collection = EmptyDict
    /\ mem = [k \in {"last_collection", "last_analysis"} |-> Absent]
    /\ cj = IdleJob
    /\ aj = IdleJob
    /\ rj = IdleJob
    /\ pl = IdleJob

---------------------------------------------------------------------------
(* The units on their own: a caller awaits run() of any unit, again and again *)

Active(u) == status[u] # "pending"
MayActivate(u) == Cardinality({v \in Units : Active(v)} \cup {u}) <= MaxActiveUnits

UnitRunCollector(u) ==
    /\ upc[u] \in {"idle", "done"}
    /\ MayActivate(u)
    /\ CollectorRunBegin(u)
    /\ UNCHANGED <<uarg, last_result>>
    /\ UNCHANGED coordVars

UnitRunAnalyzer(u, data) ==
    /\ upc[u] \in {"idle", "done"}
    /\ MayActivate(u)
    /\ AnalyzerRunBegin(u, data)
    /\ UNCHANGED <<uvalid, last_result>>
    /\ UNCHANGED coordVars

InitUnit == InitUnits /\ InitCoord /\ hasStore = FALSE

NextUnit ==
    \/ \E u \in Collectors : UnitRunCollector(u)
    \/ \E u \in Collectors, v \in {"true", "false", "raise"} : CollectorValidate(u, v)
    \/ \E u \in Collectors : \E out \in CollectorOutcomesFull(u) : CollectorBody(u, out)
    \/ \E u \in Analyzers, data \in UnitArgs : UnitRunAnalyzer(u, data)
    \/ \E u \in Analyzers : \E out \in AnalyzerOutcomesFull(uarg[u]) : AnalyzerBody(u, out)

SpecUnit == InitUnit /\ [][NextUnit]_vars

---------------------------------------------------------------------------
(* DailyJobManager.run_collection_job *)

StoreErr == <<"store failed">>

SlotOfMut(name) ==
    CASE name = "ai_models" -> "models"
      [] name = "github" -> "models"
      [] name = "huggingface" -> "hf_models"
      [] OTHER -> "papers"
SlotOf(name) ==
    CASE name = "ai_models" -> "models"
      [] name = "github" -> "repos"
      [] name = "huggingface" -> "hf_models"
      [] OTHER -> "papers"

CollectionInitial ==
    [models |-> <<>>, papers |-> <<>>, repos |-> <<>>, hf_models |-> <<>>, errors |-> <<>>]

\* what asyncio.gather(return_exceptions=True) holds for the task of _safe_collect(u)
TaskResult(u) ==
    IF upc[u] = "raised" THEN [exc |-> TRUE, msg |-> uexc[u]]
                         ELSE [exc |-> FALSE, env |-> uret[u]]

\* "elif result": a CollectorResult instance is always truthy
EnvelopeTruthy(env) == env # NoEnv

\* one turn of the loop over zip(names, collected)
AggregateOne(results, name, r) ==
    IF r.exc
      THEN [results EXCEPT !.errors = Append(@, <<name, ": ">> \o r.msg)]
      ELSE IF EnvelopeTruthy(r.env)
             THEN [results EXCEPT ![SlotOf(name)] = r.env.data]
             ELSE results

RECURSIVE AggregateFrom(_, _, _)
AggregateFrom(results, i, collected) ==
    IF i > Len(CollectorNames) THEN results
    ELSE AggregateFrom(AggregateOne(results, CollectorNames[i], collected[i]), i + 1, collected)

Aggregate(collected) == AggregateFrom(CollectionInitial, 1, collected)

Counts(results) ==
    [models |-> Len(results.models), papers |-> Len(results.papers),
     repos |-> Len(results.repos), hf_models |-> Len(results.hf_models)]

\* the job up to its gather: the four tasks are created, none has started yet
CollectionBegin(caller) ==
    /\ cj' = [pc |-> "gather", caller |-> caller, order |-> <<>>]
    /\ upc' = [u \in Units |-> IF u \in Collectors THEN "called" ELSE upc[u]]
    /\ UNCHANGED <<status, uret, uexc, uvalid, ubody, uarg, last_result>>
    /\ UNCHANGED <<last_results, collected_data, last_collection, hasStore, mem, aj, rj>>

\* a task created by gather starts running its collector's run()
TaskStart(u) ==
    /\ cj.pc = "gather"
    /\ upc[u] = "called"
    /\ CollectorRunBegin(u)
    /\ UNCHANGED <<uarg, last_result>>
    /\ UNCHANGED coordVars

\* the list gather returns: one result per task, in the order the tasks were passed
GatherResultsMut == [i \in 1..Len(CollectorNames) |-> TaskResult(cj.order[i])]
GatherResults == [i \in 1..Len(CollectorNames) |-> TaskResult(CollectorNames[i])]

\* gather returns when every task has finished, by returning or by raising
JoinReadyStallMut == \A u \in Collectors : upc[u] \in {"done", "raised"} /\ status[u] # "failed"
JoinReadyMut == \E u \in Collectors : upc[u] \in {"done", "raised"}
JoinReady == \A u \in Collectors : upc[u] \in {"done", "raised"}

\* gather returns once all four tasks have finished: aggregate, commit, then store or return
CollectionJoin ==
    /\ cj.pc = "gather"
    /\ JoinReady
    /\ LET results == Aggregate(GatherResults)
       IN /\ collected_data' = results
          /\ last_collection' = [all |-> "start_time"]
          /\ cj' = IF hasStore
                     THEN [pc |-> "store", caller |-> cj.caller, results |-> results,
                           order |-> cj.order]
                     ELSE [pc |-> "returned", caller |-> cj.caller, results |-> results]
    /\ UNCHANGED unitVars
    /\ UNCHANGED <<last_results, hasStore, mem, aj, rj, pl>>

\* await memory_store.store(key="last_collection", ...) completes: "ok" or "raise"
CollectionStored(outcome) ==
    /\ cj.pc = "store"
    /\ IF outcome = "ok"
         THEN /\ mem' = [mem EXCEPT !["last_collection"] = [counts |-> Counts(cj.results)]]
              /\ cj' = [pc |-> "returned", caller |-> cj.caller, results |-> cj.results]
         ELSE /\ mem' = mem
              /\ cj' = [pc |-> "raised", caller |-> cj.caller, exc |-> StoreErr]
    /\ UNCHANGED unitVars
    /\ UNCHANGED <<last_results, collected_data, last_collection, hasStore, aj, rj, pl>>

\* the envelopes the collectors hand back when the collect stage is studied on its own
CollectorOutcomesJob(u) ==
    {Returned(CollectorResult("success", p, <<>>, "")) : p \in Payloads(u)}
    \cup {Returned(CollectorResult("partial", p, <<Warn>>, "")) : p \in Payloads(u)}
    \cup {Raised(Boom)}

InFlight(j) == j.pc \notin {"idle", "returned", "raised"}
NoneInFlight == ~InFlight(cj) /\ ~InFlight(aj) /\ ~InFlight(rj)

\* a caller awaits run_collection_job()
StartCollection ==
    /\ pl.pc = "idle"
    /\ cj.pc = "idle"
    /\ NoneInFlight
    /\ CollectionBegin("caller")
    /\ UNCHANGED pl

InitCollect == InitUnits /\ InitCoord /\ hasStore \in BOOLEAN

NextCollect ==
    \/ StartCollection
    \/ \E u \in Collectors : TaskStart(u)
    \/ \E u \in Collectors, v \in {"true", "false"} : CollectorValidate(u, v)
    \/ \E u \in Collectors : \E out \in CollectorOutcomesJob(u) : CollectorBody(u, out)
    \/ CollectionJoin
    \/ \E outcome \in {"ok", "raise"} : CollectionStored(outcome)

SpecCollect == InitCollect /\ [][NextCollect]_vars

\* the event loop runs every task that is ready, and every awaited call completes:
\* each started run() goes on to its end, gather returns once it can, store() ends
FairCollect ==
    /\ \A u \in Collectors :
          /\ WF_vars(TaskStart(u))
          /\ WF_vars(\E v \in {"true", "false"} : CollectorValidate(u, v))
          /\ WF_vars(upc[u] = "body" /\ \E out \in CollectorOutcomesJob(u) : CollectorBody(u, out))
    /\ WF_vars(CollectionJoin)
    /\ WF_vars(\E outcome \in {"ok", "raise"} : CollectionStored(outcome))

SpecCollectFair == InitCollect /\ [][NextCollect]_vars /\ FairCollect

---------------------------------------------------------------------------
(* DailyJobManager.run_analysis_job *)

\* the [:5] of the loop over hf_models
StructuralCap == 5

Min(a, b) == IF a <= b THEN a ELSE b

\* s[:n]
TakeMut(s, n) == s
Take(s, n) == SubSeq(s, 1, Min(n, Len(s)))

\* d.get(k, default)
DictGet(d, k, default) == IF d = EmptyDict THEN default ELSE d[k]

\* "if not self._collected_data": an empty dict is falsy
HasCollectedMut(d) == TRUE
HasCollected(d) == d # EmptyDict

NoData == [error |-> <<"No data available">>]

AnalysisInitial == [insights |-> <<>>, model_analyses |-> <<>>, errors |-> <<>>]

\* the model_data built from one hf_models item
ModelData(model) == [name |-> model]

\* self.model_analyzer._last_results = model_analyses_results
RetainedAnalysesMut(previous, acc) == previous \o acc
RetainedAnalyses(previous, acc) == acc

\* the loop over the items, from item i on: the next run of the model analyzer, or,
\* past the last item, the commit of _last_results and the store or the return
AnalysisLoop(caller, results, input, items, i, acc, attempted, ended, insightSet) ==
    IF i <= Len(items)
      THEN /\ aj' = [pc |-> "model", caller |-> caller, results |-> results, input |-> input,
                     items |-> items, i |-> i, acc |-> acc,
                     attempted |-> Append(attempted, items[i]),
                     ended |-> ended, insightSet |-> insightSet, previous |-> aj.previous]
           /\ AnalyzerRunBegin("model", ModelData(items[i]))
           /\ UNCHANGED <<uvalid, last_result>>
           /\ UNCHANGED <<last_results, collected_data, last_collection, hasStore, mem, cj, rj>>
      ELSE /\ last_results' = [set |-> TRUE, value |-> RetainedAnalyses(last_results.value, acc)]
           /\ aj' = [pc |-> IF hasStore THEN "store" ELSE "returned", caller |-> caller,
                     results |-> results, input |-> input, items |-> items, i |-> i,
                     acc |-> acc, attempted |-> attempted,
                     ended |-> ended, insightSet |-> insightSet, previous |-> aj.previous]
           /\ UNCHANGED unitVars
           /\ UNCHANGED <<collected_data, last_collection, hasStore, mem, cj, rj>>

\* the job up to its first await: the precondition, then run() of the insight analyzer
AnalysisBegin(caller) ==
    IF HasCollected(collected_data)
      THEN /\ aj' = [pc |-> "insight", caller |-> caller, results |-> AnalysisInitial,
                     input |-> collected_data, previous |-> last_results.value]
           /\ AnalyzerRunBegin("insight", collected_data)
           /\ UNCHANGED <<uvalid, last_result>>
           /\ UNCHANGED <<last_results, collected_data, last_collection, hasStore, mem, cj, rj>>
      ELSE /\ aj' = [pc |-> "returned", caller |-> caller, results |-> NoData]
           /\ UNCHANGED unitVars
           /\ UNCHANGED <<last_results, collected_data, last_collection, hasStore, mem, cj, rj>>

\* run() of the insight analyzer is back: keep its result, slice hf_models, enter the loop
AnalysisAfterInsight ==
    /\ aj.pc = "insight"
    /\ upc["insight"] \in {"done", "raised"}
    /\ LET results ==
             IF upc["insight"] = "raised"
               THEN [aj.results EXCEPT !.errors = Append(@, <<"Insight analysis: ">> \o uexc["insight"])]
               ELSE IF uret["insight"].result # <<>>
                      THEN [aj.results EXCEPT !.insights = uret["insight"].result]
                      ELSE aj.results
           items == Take(DictGet(collected_data, "hf_models", <<>>), StructuralCap)
       IN AnalysisLoop(aj.caller, results, aj.input, items, 1, <<>>, <<>>, <<>>,
                       ubody["insight"].kind = "return")
    /\ UNCHANGED pl

\* run() of the model analyzer is back for item i: keep a non-empty result, go on
AnalysisAfterModel ==
    /\ aj.pc = "model"
    /\ upc["model"] \in {"done", "raised"}
    /\ LET kept == upc["model"] = "done" /\ uret["model"].result # <<>>
           results == IF kept
                        THEN [aj.results EXCEPT !.model_analyses = Append(@, uret["model"].result[1])]
                        ELSE aj.results
           acc == IF kept THEN Append(aj.acc, uret["model"].result[1]) ELSE aj.acc
       IN AnalysisLoop(aj.caller, results, aj.input, aj.items, aj.i + 1, acc, aj.attempted,
                       Append(aj.ended, IF kept THEN "ok"
                                        ELSE IF ubody["model"].kind = "raise" THEN "raise"
                                        ELSE "empty"),
                       aj.insightSet)
    /\ UNCHANGED pl

\* await memory_store.store(key="last_analysis", ...) completes: "ok" or "raise"
AnalysisStored(outcome) ==
    /\ aj.pc = "store"
    /\ IF outcome = "ok"
         THEN /\ mem' = [mem EXCEPT !["last_analysis"] =
                           [insights |-> aj.results.insights # <<>>,
                            model_analyses |-> Len(aj.results.model_analyses)]]
              /\ aj' = [aj EXCEPT !.pc = "returned"]
         ELSE /\ mem' = mem
              /\ aj' = [pc |-> "raised", caller |-> aj.caller, exc |-> StoreErr]
    /\ UNCHANGED unitVars
    /\ UNCHANGED <<last_results, collected_data, last_collection, hasStore, cj, rj, pl>>

\* what the analyze() bodies do when run by the coordinator
InsightOf(data) == [about |-> data]
AnalysisOf(data) == [model_name |-> data.name]

AnalyzerOutcomesJob(u, data) ==
    IF u = "insight"
      THEN {Returned(AnalysisResult("success", <<InsightOf(data)>>, <<>>, "")),
            Returned(AnalysisResult("success", <<>>, <<>>, "")),
            Raised(Boom)}
      ELSE {Returned(AnalysisResult("success", <<AnalysisOf(data)>>, <<>>, "")), Raised(Boom)}

---------------------------------------------------------------------------
(* DailyJobManager.run_report_job *)

ReportInitial == [insight_report |-> <<>>, model_reports |-> <<>>, errors |-> <<>>]

\* the loop over the retained structural analyses, from entry i on
ReportLoop(caller, results, items, i, attempted, ended) ==
    rj' = [pc |-> IF i <= Len(items) THEN "model_gen" ELSE "returned",
           caller |-> caller, results |-> results, items |-> items, i |-> i,
           attempted |-> IF i <= Len(items) THEN Append(attempted, items[i]) ELSE attempted,
           ended |-> ended]

\* where the loop goes on after generate() failed on entry i of n
ReportAfterFailureMut(i, n) == n + 1
ReportAfterFailure(i, n) == i + 1

\* the job up to its first await
ReportBegin(caller) ==
    /\ LET analysis_data == last_result["insight"]
           items == last_results.value
       IN IF analysis_data # NoEnv /\ analysis_data.result # <<>>
            THEN rj' = [pc |-> "insight_gen", caller |-> caller, results |-> ReportInitial,
                        items |-> items, i |-> 1, attempted |-> <<>>, ended |-> <<>>]
            ELSE ReportLoop(caller, ReportInitial, items, 1, <<>>, <<>>)
    /\ UNCHANGED unitVars
    /\ UNCHANGED <<last_results, collected_data, last_collection, hasStore, mem, cj, aj>>

\* whether an exception of a generate() is caught by the stage
ReportCatchesMut(outcome) == FALSE
ReportCatches(outcome) == outcome = "raise"

\* insight_generator.generate(...) completes: "ok" or "raise"
ReportInsightDone(outcome) ==
    /\ rj.pc = "insight_gen"
    /\ IF outcome = "ok"
         THEN ReportLoop(rj.caller,
                         [rj.results EXCEPT !.insight_report = <<[title |-> "insight", status |-> "ok"]>>],
                         rj.items, 1, <<>>, <<>>)
         ELSE IF ReportCatches(outcome)
                THEN ReportLoop(rj.caller,
                         [rj.results EXCEPT !.errors = Append(@, <<"Insight report generation: ">> \o Boom)],
                         rj.items, 1, <<>>, <<>>)
                ELSE rj' = [pc |-> "raised", caller |-> rj.caller, exc |-> Boom]
    /\ UNCHANGED unitVars
    /\ UNCHANGED <<last_results, collected_data, last_collection, hasStore, mem, cj, aj, pl>>

\* model_generator.generate(...) completes for entry i: "ok" or "raise"
ReportModelDone(outcome) ==
    /\ rj.pc = "model_gen"
    /\ IF outcome = "ok"
         THEN ReportLoop(rj.caller,
                         [rj.results EXCEPT !.model_reports =
                             Append(@, [model |-> rj.items[rj.i].model_name, status |-> "ok"])],
                         rj.items, rj.i + 1, rj.attempted, Append(rj.ended, "ok"))
         ELSE IF ReportCatches(outcome)
                THEN ReportLoop(rj.caller, rj.results, rj.items,
                                ReportAfterFailure(rj.i, Len(rj.items)),
                                rj.attempted, Append(rj.ended, "raise"))
                ELSE rj' = [pc |-> "raised", caller |-> rj.caller, exc |-> Boom]
    /\ UNCHANGED unitVars
    /\ UNCHANGED <<last_results, collected_data, last_collection, hasStore, mem, cj, aj, pl>>

---------------------------------------------------------------------------
(* DailyJobManager.run_full_pipeline *)

PipelineStart ==
    /\ pl.pc = "idle"
    /\ cj.pc = "idle" /\ aj.pc = "idle" /\ rj.pc = "idle"
    /\ pl' = [pc |-> "collect"]
    /\ CollectionBegin("pipeline")

\* run_collection_job returned: run_analysis_job is awaited
PipelineCollected ==
    /\ pl.pc = "collect"
    /\ cj.pc = "returned"
    /\ pl' = [pc |-> "analyze", collection |-> cj.results]
    /\ AnalysisBegin("pipeline")

\* run_analysis_job returned: run_report_job is awaited
PipelineAnalyzed ==
    /\ pl.pc = "analyze"
    /\ aj.pc = "returned"
    /\ pl' = [pc |-> "report", collection |-> pl.collection, analysis |-> aj.results]
    /\ ReportBegin("pipeline")

\* run_report_job returned: the composite result
PipelineReported ==
    /\ pl.pc = "report"
    /\ rj.pc = "returned"
    /\ pl' = [pc |-> "done",
              result |-> [collection |-> pl.collection, analysis |-> pl.analysis,
                          reports |-> rj.results]]
    /\ UNCHANGED unitVars
    /\ UNCHANGED <<last_results, collected_data, last_collection, hasStore, mem, cj, aj, rj>>

\* the stage being awaited raised: the exception crosses run_full_pipeline
PipelineRaised ==
    /\ \/ pl.pc = "collect" /\ cj.pc = "raised" /\ pl' = [pc |-> "raised", at |-> "collect", exc |-> cj.exc]
       \/ pl.pc = "analyze" /\ aj.pc = "raised" /\ pl' = [pc |-> "raised", at |-> "analyze", exc |-> aj.exc]
       \/ pl.pc = "report" /\ rj.pc = "raised" /\ pl' = [pc |-> "raised", at |-> "report", exc |-> rj.exc]
    /\ UNCHANGED unitVars
    /\ UNCHANGED <<last_results, collected_data, last_collection, hasStore, mem, cj, aj, rj>>

---------------------------------------------------------------------------
(* The coordinator: each stage awaited once by a caller, in any order and  *)
(* one at a time, or the full pipeline.  A stage that was skipped for      *)
(* want of upstream data may be awaited again.                             *)

StartAnalysis ==
    /\ pl.pc = "idle"
    /\ NoneInFlight
    /\ aj.pc = "idle" \/ (aj.pc = "returned" /\ aj.results = NoData)
    /\ AnalysisBegin("caller")
    /\ UNCHANGED pl

StartReport ==
    /\ pl.pc = "idle"
    /\ NoneInFlight
    /\ rj.pc = "idle" \/ (rj.pc = "returned" /\ rj.results = ReportInitial /\ rj.items = <<>>)
    /\ ReportBegin("caller")
    /\ UNCHANGED pl

\* the envelopes the collectors hand back when the whole coordinator is explored
CollectorOutcomesLean(u) ==
    IF u = "huggingface"
      THEN {Returned(CollectorResult("success", HfList(n), <<>>, "")) : n \in {2, StructuralCap, MaxItems}}
           \cup {Raised(Boom)}
      ELSE {Returned(CollectorResult("success", <<ItemOf(u)>>, <<>>, "")), Raised(Boom)}

Init == InitUnits /\ InitCoord /\ hasStore \in BOOLEAN

Next ==
    \/ StartCollection
    \/ \E u \in Collectors : TaskStart(u)
    \/ \E u \in Collectors : CollectorValidate(u, "true")
    \/ \E u \in Collectors : \E out \in CollectorOutcomesLean(u) : CollectorBody(u, out)
    \/ CollectionJoin
    \/ \E outcome \in {"ok", "raise"} : CollectionStored(outcome)
    \/ StartAnalysis
    \/ \E u \in Analyzers :
          upc[u] = "body" /\ \E out \in AnalyzerOutcomesJob(u, uarg[u]) : AnalyzerBody(u, out)
    \/ AnalysisAfterInsight
    \/ AnalysisAfterModel
    \/ \E outcome \in {"ok", "raise"} : AnalysisStored(outcome)
    \/ StartReport
    \/ \E outcome \in {"ok", "raise"} : ReportInsightDone(outcome)
    \/ \E outcome \in {"ok", "raise"} : ReportModelDone(outcome)
    \/ PipelineStart
    \/ PipelineCollected
    \/ PipelineAnalyzed
    \/ PipelineReported
    \/ PipelineRaised

Spec == Init /\ [][Next]_vars

---------------------------------------------------------------------------
(* The analyze stage awaited again and again on one collect output *)

MaxRerunItems == 6

\* the envelopes the collectors hand back here: only huggingface varies
CollectorOutcomesRerun(u) ==
    IF u = "huggingface"
      THEN {Returned(CollectorResult("success", HfList(n), <<>>, "")) : n \in 1..MaxRerunItems}
           \cup {Raised(Boom)}
      ELSE {Returned(CollectorResult("success", <<ItemOf(u)>>, <<>>, ""))}

\* a caller awaits run_analysis_job(), the first time or again
AwaitAnalysis ==
    /\ NoneInFlight
    /\ AnalysisBegin("caller")
    /\ UNCHANGED pl

InitRerun == InitUnits /\ InitCoord /\ hasStore = FALSE

NextRerun ==
    \/ StartCollection
    \/ \E u \in Collectors : TaskStart(u)
    \/ \E u \in Collectors : CollectorValidate(u, "true")
    \/ \E u \in Collectors : \E out \in CollectorOutcomesRerun(u) : CollectorBody(u, out)
    \/ CollectionJoin
    \/ AwaitAnalysis
    \/ \E u \in Analyzers :
          upc[u] = "body" /\ \E out \in AnalyzerOutcomesJob(u, uarg[u]) : AnalyzerBody(u, out)
    \/ AnalysisAfterInsight
    \/ AnalysisAfterModel

SpecRerun == InitRerun /\ [][NextRerun]_vars

---------------------------------------------------------------------------
(* Two callers of one coordinator on one event loop: run_collection_job is
   awaited again and again, and one run_analysis_job may begin and go on while
   a collect stage is in flight *)

MaxOverlapItems == 2

\* the envelopes the collectors hand back here: only huggingface varies
CollectorOutcomesOverlap(u) ==
    IF u = "huggingface"
      THEN {Returned(CollectorResult("success", HfList(n), <<>>, "")) : n \in {1, MaxOverlapItems}}
           \cup {Raised(Boom)}
      ELSE {Returned(CollectorResult("success", <<ItemOf(u)>>, <<>>, ""))}

\* a caller awaits run_collection_job() whatever the analyze stage is doing
OverlapCollection ==
    /\ ~InFlight(cj)
    /\ CollectionBegin("caller")
    /\ UNCHANGED pl

\* a caller awaits run_analysis_job() whatever the collect stage is doing
OverlapAnalysis ==
    /\ aj.pc = "idle" \/ (aj.pc = "returned" /\ aj.results = NoData)
    /\ AnalysisBegin("caller")
    /\ UNCHANGED pl

NextOverlap ==
    \/ OverlapCollection
    \/ \E u \in Collectors : TaskStart(u)
    \/ \E u \in Collectors : CollectorValidate(u, "true")
    \/ \E u \in Collectors : \E out \in CollectorOutcomesOverlap(u) : CollectorBody(u, out)
    \/ CollectionJoin
    \/ OverlapAnalysis
    \/ \E u \in Analyzers :
          upc[u] = "body" /\ \E out \in AnalyzerOutcomesJob(u, uarg[u]) : AnalyzerBody(u, out)
    \/ AnalysisAfterInsight
    \/ AnalysisAfterModel

SpecOverlap == InitRerun /\ [][NextOverlap]_vars

---------------------------------------------------------------------------
(* The unit contract, checked under SpecUnit *)

\* C1: whenever the body of a unit (collect() or analyze()) raised, run() did not
\* raise: it returned an envelope with status failed, an errors list holding the
\* exception's string and nothing else, and an empty payload.
C1_BodyRaiseGivesFailedEnvelope ==
    \A u \in Units :
        ubody[u].kind = "raise" =>
            /\ upc[u] = "done"
            /\ uexc[u] = NoMsg
            /\ uret[u].status = "failed"
            /\ Len(uret[u].errors) = 1
            /\ uret[u].errors[1] = ubody[u].msg
            /\ IF u \in Collectors THEN uret[u].data = <<>> ELSE uret[u].result = <<>>

C1_Witness ==
    /\ ubody["github"].kind = "raise"
    /\ ubody["model"].kind = "raise"

\* C2: once a run() has completed the unit's status is success, failed or partial;
\* pending is seen only on a unit whose run() never began, and running exactly
\* while a run() is in progress.
C2_StatusLifecycle ==
    \A u \in Units :
        /\ upc[u] \in {"done", "raised"} => status[u] \in Terminal
        /\ status[u] = "pending" => upc[u] \in {"idle", "called"} /\ uret[u] = NoEnv
        /\ status[u] = "running" <=> upc[u] \in {"validate", "body"}

C2_Witness ==
    /\ upc["github"] = "done"
    /\ status["github"] = "success"
    /\ status["insight"] = "running"
    /\ last_result["insight"] # NoEnv

\* C3: when validate_config() returned false, run() returned a failed envelope
\* with the single error "Invalid configuration for <unit name>" and an empty
\* payload, and collect() was not invoked in that run.
C3_InvalidConfigSkipsBody ==
    \A u \in Collectors :
        uvalid[u] = "false" =>
            /\ upc[u] = "done"
            /\ uret[u].status = "failed"
            /\ uret[u].errors = << <<"Invalid configuration for ", u>> >>
            /\ uret[u].data = <<>>
            /\ ubody[u] = NoOutcome

C3_Witness ==
    /\ uvalid["arxiv"] = "false"
    /\ upc["arxiv"] = "done"

\* C9: when the body returned an envelope carrying an error string, the envelope
\* run() returns has status partial, even if the body set success; when the body
\* returned success and no error string, the returned status is success.
C9_ErrorsDowngradeEnvelope ==
    \A u \in Units :
        ubody[u].kind = "return" =>
            /\ ubody[u].env.errors # <<>> => uret[u].status = "partial"
            /\ (ubody[u].env.errors = <<>> /\ ubody[u].env.status = "success")
                   => uret[u].status = "success"

---------------------------------------------------------------------------
(* The collect stage, checked under SpecCollect *)

JobOutput(j) == j.pc \in {"store", "returned"}

\* C4: the output mapping of run_collection_job, which is also what it commits,
\* has exactly the slots models, repos, hf_models, papers and errors, and each
\* source's slot holds the payload that source's run() returned (that of its
\* body when the body returned), whatever the other sources did.
C4_SlotPerSource ==
    JobOutput(cj) =>
        /\ DOMAIN cj.results = {"models", "repos", "hf_models", "papers", "errors"}
        /\ collected_data = cj.results
        /\ \A u \in Collectors : upc[u] = "done"
        /\ cj.results.models = uret["ai_models"].data
        /\ cj.results.repos = uret["github"].data
        /\ cj.results.hf_models = uret["huggingface"].data
        /\ cj.results.papers = uret["arxiv"].data
        /\ ubody["ai_models"].kind = "return" => cj.results.models = ubody["ai_models"].env.data
        /\ ubody["github"].kind = "return" => cj.results.repos = ubody["github"].env.data
        /\ ubody["huggingface"].kind = "return" => cj.results.hf_models = ubody["huggingface"].env.data
        /\ ubody["arxiv"].kind = "return" => cj.results.papers = ubody["arxiv"].env.data

C4_Witness ==
    /\ cj.pc = "returned"
    /\ ubody["ai_models"].kind = "raise"
    /\ uvalid["arxiv"] = "false"
    /\ cj.results.repos = <<12>>
    /\ Len(cj.results.hf_models) = MaxItems
    /\ status["huggingface"] = "partial"

\* C5: in the output of run_collection_job every source whose run() returned a
\* failed or partial envelope, or whose task raised, has an entry
\* "<unit name>: ..." in the errors list; and when exactly one source failed by
\* an exception of its body while the other three succeeded, the errors list is
\* exactly that one entry.
C5_FailuresListed ==
    JobOutput(cj) =>
        /\ \A u \in Collectors :
              (upc[u] = "raised" \/ uret[u].status \in {"failed", "partial"}) =>
                  \E i \in 1..Len(cj.results.errors) :
                      SubSeq(cj.results.errors[i], 1, 2) = <<u, ": ">>
        /\ \A b \in Collectors :
              (/\ ubody[b].kind = "raise"
               /\ \A u \in Collectors \ {b} : uret[u].status = "success")
                  => cj.results.errors = << <<b, ": ">> \o ubody[b].msg >>

---------------------------------------------------------------------------
(* The coordinator, checked under Spec *)

\* C6: run_collection_job and run_analysis_job never raise, also when the
\* store() of a configured memory store fails.
C6_StagesNeverRaise ==
    /\ cj.pc # "raised"
    /\ aj.pc # "raised"

\* C7: a run_analysis_job awaited while no collect output is committed returns
\* the "No data available" outcome at once, starts no analyzer and changes
\* nothing of the pipeline run state.
C7_NoDataLeavesStateAlone ==
    [][(~InFlight(aj) /\ aj' # aj /\ collected_data = EmptyDict) =>
          /\ aj'.pc = "returned"
          /\ aj'.results = [error |-> <<"No data available">>]
          /\ UNCHANGED <<collected_data, last_collection, last_result, last_results>>
          /\ UNCHANGED <<status, upc, uarg, ubody, mem>>]_vars

C7_Witness ==
    /\ aj.pc = "returned"
    /\ aj.results = [error |-> <<"No data available">>]
    /\ collected_data = EmptyDict
    /\ status["insight"] = "pending"
    /\ status["model"] = "pending"

\* C8: with n items in the collected hf_models, the model analyzer is run on the
\* first min(n, 5) of them, in collected order, once each, and on no other; the
\* stage then goes on to its end without an error entry for the rest.
C8_FirstFiveAnalysed ==
    (aj.pc \in {"model", "store", "returned"} /\ aj.results # NoData) =>
        LET hf == collected_data.hf_models
            n == Len(hf)
            k == IF n <= 5 THEN n ELSE 5
        IN /\ Len(aj.attempted) <= k
           /\ \A i \in 1..Len(aj.attempted) : aj.attempted[i] = hf[i]
           /\ aj.pc = "model" => Len(aj.attempted) = aj.i /\ uarg["model"] = [name |-> hf[aj.i]]
           /\ aj.pc \in {"store", "returned"} =>
                 /\ Len(aj.attempted) = k
                 /\ Len(aj.results.errors) <= 1
                 /\ \A e \in 1..Len(aj.results.errors) :
                       aj.results.errors[e][1] = "Insight analysis: "

C8_Witness ==
    /\ aj.pc = "returned"
    /\ aj.results # NoData
    /\ Len(collected_data.hf_models) = MaxItems
    /\ Len(aj.attempted) = 5
    /\ Len(aj.results.model_analyses) = 5

\* C10: run_full_pipeline awaits collect, then analyze, then report, each begun
\* only once the one before has returned; its result embeds the three stage
\* outputs; and no failure of a collector, an analyzer or a report generator
\* ends it early: only a failed store() of the memory store does.
C10_PipelineOrder ==
    /\ pl.pc = "collect" => aj.pc = "idle" /\ rj.pc = "idle"
    /\ pl.pc = "analyze" =>
          /\ cj.pc = "returned" /\ rj.pc = "idle"
          /\ pl.collection = cj.results
    /\ pl.pc = "report" =>
          /\ cj.pc = "returned" /\ aj.pc = "returned"
          /\ pl.collection = cj.results /\ pl.analysis = aj.results
    /\ pl.pc = "done" =>
          /\ cj.pc = "returned" /\ aj.pc = "returned" /\ rj.pc = "returned"
          /\ DOMAIN pl.result = {"collection", "analysis", "reports"}
          /\ pl.result.collection = cj.results
          /\ pl.result.analysis = aj.results
          /\ pl.result.reports = rj.results
    /\ pl.pc = "raised" => hasStore /\ pl.exc = StoreErr /\ pl.at \in {"collect", "analyze"}
    /\ pl.pc # "idle" => cj.caller = "pipeline"
    /\ (pl.pc # "idle" /\ aj.pc # "idle") => aj.caller = "pipeline"
    /\ (pl.pc # "idle" /\ rj.pc # "idle") => rj.caller = "pipeline"

C10_Witness ==
    /\ pl.pc = "done"
    /\ status["github"] = "failed"
    /\ status["insight"] = "failed"
    /\ status["model"] = "failed"
    /\ Len(last_results.value) = 4
    /\ Len(pl.result.reports.model_reports) = 2

\* C19: after every completed run() the status recorded on the unit equals the
\* status field of the envelope that run() returned.  (Checked under SpecUnit.)
C19_StatusMatchesEnvelope ==
    \A u \in Units : upc[u] = "done" => status[u] = uret[u].status

\* C12: a run_report_job awaited with no usable retained insight outcome and no
\* retained structural analyses returns an outcome whose errors list holds one
\* error string.
C12_NoUpstreamGivesOneError ==
    (/\ rj.pc = "returned"
     /\ rj.items = <<>>
     /\ rj.results.insight_report = <<>>
     /\ last_result["insight"] = NoEnv \/ last_result["insight"].result = <<>>)
        => Len(rj.results.errors) = 1

\* C13: run_report_job invokes the model report generator once on each entry of
\* the retained structural analyses, in order, whatever generations failed; it
\* does not raise; and model_reports holds, in order, one descriptor for each
\* entry whose generation succeeded and none for the others.
C13_OneReportPerEntry ==
    /\ rj.pc # "raised"
    /\ rj.pc \in {"insight_gen", "model_gen", "returned"} =>
          /\ Len(rj.attempted) <= Len(rj.items)
          /\ \A k \in 1..Len(rj.attempted) : rj.attempted[k] = rj.items[k]
          /\ LET okAt == {k \in 1..Len(rj.ended) : rj.ended[k] = "ok"}
                 rank(k) == Cardinality({m \in okAt : m <= k})
             IN /\ Len(rj.results.model_reports) = Cardinality(okAt)
                /\ \A k \in okAt :
                      rj.results.model_reports[rank(k)].model = rj.items[k].model_name
    /\ rj.pc = "returned" =>
          /\ rj.attempted = rj.items
          /\ Len(rj.ended) = Len(rj.items)

C13_Witness ==
    /\ rj.pc = "returned"
    /\ rj.items = last_results.value
    /\ Len(rj.items) = 5
    /\ rj.ended = <<"raise", "ok", "raise", "ok", "ok">>
    /\ Len(rj.results.model_reports) = 3

\* C14: every failed invocation inside the analyze and the report stage has an
\* entry in the errors list of the output of that stage: a failed insight
\* analysis, a failed structural analysis of an item, a failed generation of a
\* model report.
C14_FailuresSurfaced ==
    /\ (JobOutput(aj) /\ aj.results # NoData) =>
          /\ status["insight"] = "failed" => aj.results.errors # <<>>
          /\ Len(aj.results.errors) >=
                Cardinality({k \in 1..Len(aj.ended) : aj.ended[k] = "raise"})
    /\ rj.pc = "returned" =>
          Len(rj.results.errors) >=
             Cardinality({k \in 1..Len(rj.ended) : rj.ended[k] = "raise"})

\* C16: the output of run_collection_job is a function of what each collector's
\* run() ended with and of nothing else: whatever the order in which the four
\* tasks finished, each slot holds the payload of its own source, and errors
\* holds the entries of the raised tasks in configured source order.
C16_OrderIndependent ==
    JobOutput(cj) =>
       LET payload(u) == IF upc[u] = "done" THEN uret[u].data ELSE <<>>
           entry(u) == IF upc[u] = "raised" THEN << <<u, ": ">> \o uexc[u] >> ELSE <<>>
       IN cj.results = [models |-> payload("ai_models"),
                        repos |-> payload("github"),
                        hf_models |-> payload("huggingface"),
                        papers |-> payload("arxiv"),
                        errors |-> entry("ai_models") \o entry("github")
                                   \o entry("huggingface") \o entry("arxiv")]

C16_Witness ==
    /\ cj.pc = "store"
    /\ cj.order = <<"arxiv", "huggingface", "github", "ai_models">>
    /\ cj.results.models = <<ItemOf("ai_models")>>
    /\ cj.results.repos = <<ItemOf("github")>>
    /\ cj.results.papers = <<ItemOf("arxiv")>>
    /\ Len(cj.results.hf_models) = 2

\* C18: when the event loop is fair and every collector's run() ends, a
\* run_collection_job that has created its tasks goes on to its join, commits
\* its output and ends, whichever collectors failed or finished early; and the
\* stage is past its join only when all four runs have finished.  (Past the
\* commit the job returns, unless store() raises: that is the subject of C6.)
C18_CollectionCompletes ==
    /\ (cj.pc = "gather") ~>
          (/\ collected_data # EmptyDict
           /\ \/ cj.pc = "returned" /\ collected_data = cj.results
              \/ cj.pc = "raised" /\ cj.exc = StoreErr)
    /\ [](cj.pc \in {"store", "returned", "raised"} =>
             \A u \in Collectors : upc[u] = "done")

C18_Witness ==
    /\ cj.pc = "returned"
    /\ status["ai_models"] = "failed"
    /\ status["github"] = "failed"
    /\ status["huggingface"] = "partial"
    /\ status["arxiv"] = "success"
    /\ collected_data = cj.results

---------------------------------------------------------------------------
(* Overlapping stages, checked under SpecOverlap *)

\* C20: within one run_analysis_job the hf_models items handed to the model
\* analyzer are the first five of the hf_models of the very mapping that was
\* handed to the insight analyzer, also when a run_collection_job commits while
\* the analysis is in flight.
C20_OneSnapshot ==
    (aj.pc \in {"model", "store", "returned"} /\ aj.results # NoData) =>
        aj.items = Take(aj.input.hf_models, StructuralCap)

\* C11: the collected-data slot is written at one point of run_collection_job
\* only, the step in which its gather returns, once per run, when all four
\* collectors' run() have finished; what is written is the whole output mapping
\* of that run.  So the slot always holds the initial empty value or the whole
\* output of a finished collect stage, also while a later one is in flight.
C11_SingleCommitAfterJoin ==
    /\ [](collected_data # EmptyDict =>
             /\ DOMAIN collected_data = {"models", "repos", "hf_models", "papers", "errors"}
             /\ cj.pc # "idle"
             /\ cj.pc = "returned" => collected_data = cj.results)
    /\ [][(collected_data' # collected_data \/ (cj.pc = "gather" /\ cj'.pc # "gather")) =>
             /\ cj.pc = "gather"
             /\ cj'.pc = "returned"
             /\ \A u \in Collectors : upc[u] = "done" /\ upc'[u] = "done"
             /\ collected_data' = cj'.results
             /\ collected_data' = [models |-> uret["ai_models"].data,
                                   repos |-> uret["github"].data,
                                   hf_models |-> uret["huggingface"].data,
                                   papers |-> uret["arxiv"].data,
                                   errors |-> <<>>]]_vars

C11_Witness ==
    /\ cj.pc = "gather"
    /\ upc["huggingface"] = "done" /\ status["huggingface"] = "failed"
    /\ upc["github"] = "done"
    /\ upc["arxiv"] = "body"
    /\ upc["ai_models"] = "called"
    /\ collected_data # EmptyDict
    /\ collected_data.hf_models = HfList(MaxOverlapItems)
    /\ aj.pc = "model"

---------------------------------------------------------------------------
(* Repeated analyze stages, checked under SpecRerun *)

\* C15: after a run_analysis_job that passed its precondition, the insight
\* outcome retained on the insight analyzer was stored by that same run, like
\* the retained structural analyses: it is never left over from an earlier run.
C15_InsightFromSameRun ==
    (JobOutput(aj) /\ aj.results # NoData) =>
        /\ last_results.set
        /\ last_result["insight"] # NoEnv => aj.insightSet

\* C17: in a run_analysis_job that passed its precondition every item of the
\* slice is handed to the model analyzer whatever happened to the items before
\* it, and at the end the retained structural analyses are, in item order, the
\* results of exactly the items whose analysis returned a non-empty result:
\* nothing of the sequence retained before the run is left.
C17_ItemsIsolatedAndReplaced ==
    /\ (aj.pc \in {"model", "store", "returned"} /\ aj.results # NoData) =>
          /\ aj.items = SubSeq(collected_data.hf_models, 1,
                               IF Len(collected_data.hf_models) <= 5
                                 THEN Len(collected_data.hf_models) ELSE 5)
          /\ Len(aj.attempted) <= Len(aj.items)
          /\ \A k \in 1..Len(aj.attempted) : aj.attempted[k] = aj.items[k]
    /\ (JobOutput(aj) /\ aj.results # NoData) =>
          /\ aj.attempted = aj.items
          /\ Len(aj.ended) = Len(aj.items)
          /\ LET okAt == {k \in 1..Len(aj.ended) : aj.ended[k] = "ok"}
                 rank(k) == Cardinality({m \in okAt : m <= k})
             IN /\ Len(last_results.value) = Cardinality(okAt)
                /\ \A k \in okAt : last_results.value[rank(k)] = AnalysisOf(ModelData(aj.items[k]))

C17_Witness ==
    /\ aj.pc = "returned"
    /\ aj.results # NoData
    /\ Len(collected_data.hf_models) = 6
    /\ Len(aj.previous) = 5
    /\ aj.ended = <<"raise", "ok", "raise", "ok", "ok">>
    /\ last_results.value = <<AnalysisOf(ModelData(5)), AnalysisOf(ModelData(3)),
                              AnalysisOf(ModelData(2))>>

=============================================================================
